---- MODULE Spec2Model ----
(***************************************************************************)
(* State-machine model of GitHubRepoTransfer (src/repo_transfer.py): the   *)
(* validation gate (validate_token, validate_org_access,                   *)
(* validate_repo_access), the transfer executor (transfer_repository) and  *)
(* the two drivers (process_single_transfer, process_csv_file).            *)
(*                                                                         *)
(* Strings are sequences of one-character strings, so that str.strip() and *)
(* str.lower() are computed rather than assumed.  Every HTTP call and      *)
(* every time.sleep() appends one event to `trace`; `trace` is cleared     *)
(* when a top-level call starts and when a CSV row starts, so it always    *)
(* holds the I/O performed for the request being processed.                *)
(***************************************************************************)
EXTENDS Integers, Sequences, FiniteSets, TLC

VARIABLES
    dry_run,          \* self.dry_run
    auto_approve,     \* self.auto_approve
    confirm_each,     \* self.confirm_each
    user_login,       \* self.user_login (PyNone models None)
    validation_done,  \* self._validation_done
    op,               \* top-level call in progress: "none", "direct", "single", "csv"
    pc,               \* position inside the call
    source_org,       \* transfer_repository / process_single_transfer argument
    repo_name,        \* "
    dest_org,         \* "
    max_retries,      \* transfer_repository argument
    retry_delay,      \* transfer_repository argument
    attempt,          \* loop variable of transfer_repository
    tr_base,          \* Len(trace) when transfer_repository was entered
    voa_org,          \* validate_org_access argument
    voa_caller,       \* call site validate_org_access returns to
    ret,              \* return value of the callee that has just returned
    source_org_valid, \* local of process_single_transfer
    csv_path,         \* the file csv_path names: [exists, columns_ok, rows]
    i,                \* loop index of process_csv_file (1-based)
    successful,       \* local of process_csv_file
    total,            \* local of process_csv_file
    result,           \* value returned by the last finished top-level call
    trace,            \* I/O events of the request being processed
    ncalls,           \* number of top-level calls started
    n_get_user,       \* GET /user calls made by the top-level call under way
    login_writes,     \* assignments to self.user_login since construction
    n_tr_calls,       \* transfer_repository invocations of the top-level call under way
    approved          \* the user answered the last prompt of the call under way with y or yes

vars == <<dry_run, auto_approve, confirm_each, user_login, validation_done,
          op, pc, source_org, repo_name, dest_org, max_retries, retry_delay,
          attempt, tr_base, voa_org, voa_caller, ret, source_org_valid,
          csv_path, i, successful, total, result, trace, ncalls,
          n_get_user, login_writes, n_tr_calls, approved>>

instanceVars == <<dry_run, auto_approve, confirm_each>>
reqVars == <<source_org, repo_name, dest_org>>
trVars == <<max_retries, retry_delay, attempt, tr_base>>
voaVars == <<voa_org, voa_caller>>
csvVars == <<csv_path, i, successful, total>>
countVars == <<ncalls, n_get_user, login_writes, n_tr_calls, approved>>

----------------------------------------------------------------------------
(* Bounds of the model *)

MaxRetriesBound == 3   \* largest max_retries passed to a direct call
MaxRows == 2           \* longest CSV file
MaxCalls == 2          \* top-level calls made on one instance

(* Program constants *)

DefaultMaxRetries == 3
DefaultRetryDelay == 15
InterTransferDelay == 5

----------------------------------------------------------------------------
(* Strings *)

PyNone == <<"None">>       \* Python None (user_login unset, missing CSV field)
EmptyStr == <<>>
OrgA == <<"a">>
OrgB == <<"b">>
OrgAUpper == <<"A">>
RepoR == <<"r">>
Login == <<"u">>

Whitespace == {" "}

RECURSIVE LStrip(_)
LStrip(s) == IF s # <<>> /\ Head(s) \in Whitespace THEN LStrip(Tail(s)) ELSE s

RECURSIVE RStrip(_)
RStrip(s) == IF s # <<>> /\ s[Len(s)] \in Whitespace
             THEN RStrip(SubSeq(s, 1, Len(s) - 1)) ELSE s

Strip(s) == RStrip(LStrip(s))

LowerChar(c) == CASE c = "A" -> "a"
                  [] c = "B" -> "b"
                  [] c = "R" -> "r"
                  [] c = "U" -> "u"
                  [] OTHER -> c

Lower(s) == [k \in 1..Len(s) |-> LowerChar(s[k])]

Truthy(s) == s # EmptyStr /\ s # PyNone

----------------------------------------------------------------------------
(* HTTP responses the environment can produce.  raised = TRUE models an    *)
(* exception thrown by the session call.                                   *)

UserResponses ==
    { [raised |-> FALSE, status |-> 200, login |-> Login],
      [raised |-> FALSE, status |-> 200, login |-> PyNone],
      [raised |-> FALSE, status |-> 401, login |-> PyNone],
      [raised |-> TRUE,  status |-> 0,   login |-> PyNone] }

OrgResponses ==
    { [raised |-> FALSE, status |-> 200, type |-> "Organization"],
      [raised |-> FALSE, status |-> 200, type |-> "User"],
      [raised |-> FALSE, status |-> 404, type |-> "none"],
      [raised |-> TRUE,  status |-> 0,   type |-> "none"] }

MembershipResponses ==
    { [raised |-> FALSE, status |-> 200, state |-> "active",  role |-> "admin"],
      [raised |-> FALSE, status |-> 200, state |-> "active",  role |-> "member"],
      [raised |-> FALSE, status |-> 200, state |-> "pending", role |-> "admin"],
      [raised |-> FALSE, status |-> 200, state |-> "active",  role |-> "billing_manager"],
      [raised |-> FALSE, status |-> 404, state |-> "none",    role |-> "none"],
      [raised |-> TRUE,  status |-> 0,   state |-> "none",    role |-> "none"] }

\* has_owner = FALSE models a 200 body without the 'owner' key.
RepoResponses ==
    { [raised |-> FALSE, status |-> 200, has_owner |-> TRUE,  owner |-> OrgA],
      [raised |-> FALSE, status |-> 200, has_owner |-> TRUE,  owner |-> OrgAUpper],
      [raised |-> FALSE, status |-> 200, has_owner |-> TRUE,  owner |-> OrgB],
      [raised |-> FALSE, status |-> 200, has_owner |-> FALSE, owner |-> EmptyStr],
      [raised |-> FALSE, status |-> 404, has_owner |-> FALSE, owner |-> EmptyStr],
      [raised |-> TRUE,  status |-> 0,   has_owner |-> FALSE, owner |-> EmptyStr] }

\* inprog models
\*   "previous repository operation is still in progress" in response.text
PostResponses ==
    { [raised |-> FALSE, status |-> 202, inprog |-> FALSE],
      [raised |-> FALSE, status |-> 422, inprog |-> TRUE],
      [raised |-> FALSE, status |-> 422, inprog |-> FALSE],
      [raised |-> FALSE, status |-> 403, inprog |-> FALSE],
      [raised |-> FALSE, status |-> 500, inprog |-> TRUE],
      [raised |-> TRUE,  status |-> 0,   inprog |-> FALSE] }

----------------------------------------------------------------------------
(* Inputs *)

Requests ==
    { [source_org |-> OrgA,     repo_name |-> RepoR, dest_org |-> OrgB],
      [source_org |-> EmptyStr, repo_name |-> RepoR, dest_org |-> OrgB] }

\* Arguments of a direct transfer_repository call: each of the three may be ''
DirectRequests ==
    Requests \cup
    { [source_org |-> OrgA, repo_name |-> EmptyStr, dest_org |-> OrgB],
      [source_org |-> OrgA, repo_name |-> RepoR,    dest_org |-> EmptyStr] }

RetryDelays == {5, 15}

\* Raw CSV rows, before .strip(): a padded valid row, a row whose source_org
\* is blank, and a short row (csv.DictReader fills missing fields with None).
Rows ==
    { [source_org |-> <<" ", "a">>, repo_name |-> <<"r", " ">>, dest_org |-> <<" ", "b", " ">>],
      [source_org |-> <<" ">>,      repo_name |-> RepoR,        dest_org |-> OrgB],
      [source_org |-> OrgA,         repo_name |-> RepoR,        dest_org |-> PyNone] }

RECURSIVE SeqsUpTo(_, _)
SeqsUpTo(S, n) ==
    IF n = 0 THEN { <<>> }
    ELSE LET shorter == SeqsUpTo(S, n - 1)
         IN  shorter \cup { Append(q, x) : q \in shorter, x \in S }

CsvFiles ==
    { [exists |-> FALSE, columns_ok |-> FALSE, rows |-> <<>>],
      [exists |-> TRUE,  columns_ok |-> FALSE, rows |-> <<>>] }
    \cup { [exists |-> TRUE, columns_ok |-> TRUE, rows |-> q] : q \in SeqsUpTo(Rows, MaxRows) }

\* What the user types at a confirmation prompt ("interrupt" = Ctrl-C).
Answers == {"y", "yes", "n", "interrupt"}

----------------------------------------------------------------------------
(* Events *)

GetUserEvent(r) == [kind |-> "get_user", resp |-> r]
GetOrgEvent(org, r) == [kind |-> "get_org", org |-> org, resp |-> r]
GetMembershipEvent(org, login, r) ==
    [kind |-> "get_membership", org |-> org, login |-> login, resp |-> r]
GetRepoEvent(org, repo, r) == [kind |-> "get_repo", org |-> org, repo |-> repo, resp |-> r]
PostEvent(org, repo, new_owner, r) ==
    [kind |-> "post", org |-> org, repo |-> repo, new_owner |-> new_owner, resp |-> r]
SleepEvent(secs) == [kind |-> "sleep", secs |-> secs]

----------------------------------------------------------------------------
(* Decisions of the validation gate *)

\* validate_token: the response counts as authenticated
TokenOk(r) == ~r.raised /\ r.status = 200

\* Faulty variant: the type of the account is not looked at
OrgIsOrganization_IgnoresType(r) == ~r.raised /\ r.status = 200

\* validate_org_access: the organization GET lets the membership GET happen
OrgIsOrganization(r) == ~r.raised /\ r.status = 200 /\ r.type = "Organization"

\* Faulty variant: the state of the membership is not looked at
MembershipOk_IgnoresState(r) ==
    ~r.raised /\ r.status = 200 /\ r.role \in {"admin", "member"}

\* validate_org_access: the membership GET authorizes
MembershipOk(r) ==
    ~r.raised /\ r.status = 200 /\ r.state = "active" /\ r.role \in {"admin", "member"}

\* validate_repo_access: repo_data['owner'] raises KeyError when the key is
\* missing, which the except clause turns into False
\* Faulty variant: the owner is compared with the case kept
RepoOk_CaseSensitive(r, org_name) ==
    /\ ~r.raised
    /\ r.status = 200
    /\ r.has_owner
    /\ r.owner = org_name

\* Faulty variant: the owner is not compared at all
RepoOk_AnyOwner(r, org_name) ==
    /\ ~r.raised
    /\ r.status = 200
    /\ r.has_owner

RepoOk(r, org_name) ==
    /\ ~r.raised
    /\ r.status = 200
    /\ r.has_owner
    /\ Lower(r.owner) = Lower(org_name)

----------------------------------------------------------------------------
(* Decision of the retry loop of transfer_repository after one POST:       *)
(*   "success"  return True                                                *)
(*   "sleep"    time.sleep(retry_delay); continue                          *)
(*   "next"     fall off the loop body: next iteration without sleeping,   *)
(*              or the end of the loop when attempt = max_retries          *)
(*   "break"    leave the loop, return False                               *)

\* Faulty variants of the decision, used to show that the properties below
\* depend on it.
\* - the locked-repository 422 is not recognised: no sleep before the retry
PostOutcome_NoSleepOn422(r, att, maxr) ==
    IF r.raised
    THEN IF att < maxr THEN "sleep" ELSE "break"
    ELSE IF r.status = 202 THEN "success"
    ELSE IF ~r.inprog THEN "break"
    ELSE "next"

\* - attempt <= max_retries: sleeps after the final attempt too
PostOutcome_SleepOnLastAttempt(r, att, maxr) ==
    IF r.raised
    THEN IF att < maxr THEN "sleep" ELSE "break"
    ELSE IF r.status = 202 THEN "success"
    ELSE IF r.status = 422 /\ r.inprog /\ att <= maxr THEN "sleep"
    ELSE IF ~r.inprog THEN "break"
    ELSE "next"

\* - the break on a definitive failure is missing
PostOutcome_NoBreak(r, att, maxr) ==
    IF r.raised
    THEN IF att < maxr THEN "sleep" ELSE "break"
    ELSE IF r.status = 202 THEN "success"
    ELSE IF r.status = 422 /\ r.inprog /\ att < maxr THEN "sleep"
    ELSE "next"

\* - success is expected as 200 instead of 202
PostOutcome_Expect200(r, att, maxr) ==
    IF r.raised
    THEN IF att < maxr THEN "sleep" ELSE "break"
    ELSE IF r.status = 200 THEN "success"
    ELSE IF r.status = 422 /\ r.inprog /\ att < maxr THEN "sleep"
    ELSE IF ~r.inprog THEN "break"
    ELSE "next"

\* - an exception is not retried
PostOutcome_ExceptionNotRetried(r, att, maxr) ==
    IF r.raised
    THEN "break"
    ELSE IF r.status = 202 THEN "success"
    ELSE IF r.status = 422 /\ r.inprog /\ att < maxr THEN "sleep"
    ELSE IF ~r.inprog THEN "break"
    ELSE "next"

PostOutcome(r, att, maxr) ==
    IF r.raised
    THEN IF att < maxr THEN "sleep" ELSE "break"
    ELSE IF r.status = 202 THEN "success"
    ELSE IF r.status = 422 /\ r.inprog /\ att < maxr THEN "sleep"
    ELSE IF ~r.inprog THEN "break"
    ELSE "next"

----------------------------------------------------------------------------
(* Projections of the trace *)

RECURSIVE SelectKind(_, _)
SelectKind(t, kinds) ==
    IF t = <<>> THEN <<>>
    ELSE IF Head(t).kind \in kinds
         THEN <<Head(t)>> \o SelectKind(Tail(t), kinds)
         ELSE SelectKind(Tail(t), kinds)

GetKinds == {"get_user", "get_org", "get_membership", "get_repo"}

\* I/O performed by the current invocation of transfer_repository
TrTrace == SubSeq(trace, tr_base + 1, Len(trace))
TrPosts == SelectKind(TrTrace, {"post"})
TrSleeps == SelectKind(TrTrace, {"sleep"})
TrGets == SelectKind(TrTrace, GetKinds)

Posts == SelectKind(trace, {"post"})
Sleeps == SelectKind(trace, {"sleep"})

----------------------------------------------------------------------------
NoFile == [exists |-> FALSE, columns_ok |-> FALSE, rows |-> <<>>]
NoResult == [op |-> "none", ok |-> FALSE, successful |-> 0, total |-> 0]

\* The locals of a call that has just started hold nothing of the previous
\* call: a new frame, an empty I/O record, no value returned yet.
FreshFrame ==
    /\ attempt' = 0
    /\ tr_base' = 0
    /\ voa_org' = EmptyStr
    /\ voa_caller' = "none"
    /\ ret' = FALSE
    /\ source_org_valid' = FALSE
    /\ i' = 0
    /\ successful' = 0
    /\ total' = 0
    /\ result' = NoResult
    /\ trace' = <<>>
    /\ n_get_user' = 0
    /\ n_tr_calls' = 0
    /\ approved' = FALSE

Init ==
    /\ dry_run \in BOOLEAN
    /\ auto_approve \in BOOLEAN
    /\ confirm_each \in BOOLEAN
    /\ user_login = PyNone
    /\ validation_done = FALSE
    /\ op = "none"
    /\ pc = "idle"
    /\ source_org = EmptyStr
    /\ repo_name = EmptyStr
    /\ dest_org = EmptyStr
    /\ max_retries = DefaultMaxRetries
    /\ retry_delay = DefaultRetryDelay
    /\ attempt = 0
    /\ tr_base = 0
    /\ voa_org = EmptyStr
    /\ voa_caller = "none"
    /\ ret = FALSE
    /\ source_org_valid = FALSE
    /\ csv_path = NoFile
    /\ i = 0
    /\ successful = 0
    /\ total = 0
    /\ result = NoResult
    /\ trace = <<>>
    /\ ncalls = 0
    /\ n_get_user = 0
    /\ login_writes = 0
    /\ n_tr_calls = 0
    /\ approved = FALSE

----------------------------------------------------------------------------
(* validate_token *)

\* Faulty variant: a failed resolution clears the cached login
VT_GetUser_ClearsOnFailure ==
    /\ pc = "vt_get_user"
    /\ \E r \in UserResponses :
        /\ trace' = Append(trace, GetUserEvent(r))
        /\ IF TokenOk(r)
           THEN /\ user_login' = r.login
                /\ login_writes' = login_writes + 1
                /\ ret' = TRUE
           ELSE /\ user_login' = PyNone
                /\ login_writes' = login_writes
                /\ ret' = FALSE
    /\ n_get_user' = n_get_user + 1
    /\ pc' = "vt_return"
    /\ UNCHANGED <<instanceVars, validation_done, op, reqVars, trVars, voaVars,
                   source_org_valid, csvVars, result, ncalls, n_tr_calls,
                   approved>>

VT_GetUser ==
    /\ pc = "vt_get_user"
    /\ \E r \in UserResponses :
        /\ trace' = Append(trace, GetUserEvent(r))
        /\ IF TokenOk(r)
           THEN /\ user_login' = r.login
                /\ login_writes' = login_writes + 1
                /\ ret' = TRUE
           ELSE /\ user_login' = user_login
                /\ login_writes' = login_writes
                /\ ret' = FALSE
    /\ n_get_user' = n_get_user + 1
    /\ pc' = "vt_return"
    /\ UNCHANGED <<instanceVars, validation_done, op, reqVars, trVars, voaVars,
                   source_org_valid, csvVars, result, ncalls, n_tr_calls,
                   approved>>

----------------------------------------------------------------------------
(* validate_org_access *)

VOA_GetOrg ==
    /\ pc = "voa_get_org"
    /\ \E r \in OrgResponses :
        /\ trace' = Append(trace, GetOrgEvent(voa_org, r))
        /\ IF OrgIsOrganization(r)
           THEN pc' = "voa_get_membership" /\ ret' = ret
           ELSE pc' = "voa_return" /\ ret' = FALSE
    /\ UNCHANGED <<instanceVars, user_login, validation_done, op, reqVars, trVars,
                   voaVars, source_org_valid, csvVars, result, countVars>>

\* Faulty variant: an exception at the membership GET counts as a membership
VOA_GetMembership_RaiseIsMember ==
    /\ pc = "voa_get_membership"
    /\ \E r \in MembershipResponses :
        /\ trace' = Append(trace, GetMembershipEvent(voa_org, user_login, r))
        /\ ret' = (r.raised \/ MembershipOk(r))
    /\ pc' = "voa_return"
    /\ UNCHANGED <<instanceVars, user_login, validation_done, op, reqVars, trVars,
                   voaVars, source_org_valid, csvVars, result, countVars>>

VOA_GetMembership ==
    /\ pc = "voa_get_membership"
    /\ \E r \in MembershipResponses :
        /\ trace' = Append(trace, GetMembershipEvent(voa_org, user_login, r))
        /\ ret' = MembershipOk(r)
    /\ pc' = "voa_return"
    /\ UNCHANGED <<instanceVars, user_login, validation_done, op, reqVars, trVars,
                   voaVars, source_org_valid, csvVars, result, countVars>>

----------------------------------------------------------------------------
(* validate_repo_access *)

VRA_GetRepo ==
    /\ pc = "vra_get_repo"
    /\ \E r \in RepoResponses :
        /\ trace' = Append(trace, GetRepoEvent(source_org, repo_name, r))
        /\ ret' = RepoOk(r, source_org)
    /\ pc' = "vra_return"
    /\ UNCHANGED <<instanceVars, user_login, validation_done, op, reqVars, trVars,
                   voaVars, source_org_valid, csvVars, result, countVars>>

----------------------------------------------------------------------------
(* transfer_repository *)

\* return statement of transfer_repository
TR_ReturnValue(v) == ret' = v /\ pc' = "tr_return"

\* Faulty variant: the dry-run check is missing
TR_AfterValidation_NoDryRunCheck ==
    IF 1 <= max_retries
    THEN attempt' = 1 /\ pc' = "tr_post" /\ ret' = ret
    ELSE TR_ReturnValue(FALSE) /\ attempt' = attempt

\* lines 297-306: the dry-run check, then the first iteration of the loop
TR_AfterValidation ==
    IF dry_run
    THEN TR_ReturnValue(TRUE) /\ attempt' = attempt
    ELSE IF 1 <= max_retries
         THEN attempt' = 1 /\ pc' = "tr_post" /\ ret' = ret
         ELSE TR_ReturnValue(FALSE) /\ attempt' = attempt

\* Faulty variant: the _validation_done flag is not consulted
TR_Entry_AlwaysValidates ==
    /\ pc = "tr_entry"
    /\ n_tr_calls' = n_tr_calls + 1
    /\ tr_base' = Len(trace)
    /\ IF source_org = EmptyStr \/ repo_name = EmptyStr \/ dest_org = EmptyStr
       THEN TR_ReturnValue(FALSE) /\ UNCHANGED <<attempt, voaVars>>
       ELSE /\ voa_org' = source_org
            /\ voa_caller' = "tr_src"
            /\ pc' = "voa_get_org"
            /\ UNCHANGED <<attempt, ret>>
    /\ UNCHANGED <<instanceVars, user_login, validation_done, op, reqVars,
                   max_retries, retry_delay, source_org_valid, csvVars, result,
                   trace, ncalls, n_get_user, login_writes, approved>>

\* lines 263-275: parameter check, validation skip, first validation call
\* Faulty variant: the parameters are not checked
TR_Entry_NoParamCheck ==
    /\ pc = "tr_entry"
    /\ n_tr_calls' = n_tr_calls + 1
    /\ tr_base' = Len(trace)
    /\ IF ~validation_done
       THEN /\ voa_org' = source_org
            /\ voa_caller' = "tr_src"
            /\ pc' = "voa_get_org"
            /\ UNCHANGED <<attempt, ret>>
       ELSE TR_AfterValidation /\ UNCHANGED voaVars
    /\ UNCHANGED <<instanceVars, user_login, validation_done, op, reqVars,
                   max_retries, retry_delay, source_org_valid, csvVars, result,
                   trace, ncalls, n_get_user, login_writes, approved>>

TR_Entry ==
    /\ pc = "tr_entry"
    /\ n_tr_calls' = n_tr_calls + 1
    /\ tr_base' = Len(trace)
    /\ IF source_org = EmptyStr \/ repo_name = EmptyStr \/ dest_org = EmptyStr
       THEN TR_ReturnValue(FALSE) /\ UNCHANGED <<attempt, voaVars>>
       ELSE IF ~validation_done
            THEN /\ voa_org' = source_org
                 /\ voa_caller' = "tr_src"
                 /\ pc' = "voa_get_org"
                 /\ UNCHANGED <<attempt, ret>>
            ELSE TR_AfterValidation /\ UNCHANGED voaVars
    /\ UNCHANGED <<instanceVars, user_login, validation_done, op, reqVars,
                   max_retries, retry_delay, source_org_valid, csvVars, result,
                   trace, ncalls, n_get_user, login_writes, approved>>

\* Faulty variant: in dry-run mode a failed source check is passed over
TR_AfterSourceOrg_ContinuesInDryRun ==
    /\ pc = "voa_return"
    /\ voa_caller = "tr_src"
    /\ IF ~ret /\ ~dry_run
       THEN TR_ReturnValue(FALSE) /\ UNCHANGED voaVars
       ELSE /\ voa_org' = dest_org
            /\ voa_caller' = "tr_dst"
            /\ pc' = "voa_get_org"
            /\ ret' = ret
    /\ UNCHANGED <<instanceVars, user_login, validation_done, op, reqVars, trVars,
                   source_org_valid, csvVars, result, trace, countVars>>

\* lines 275-281
TR_AfterSourceOrg ==
    /\ pc = "voa_return"
    /\ voa_caller = "tr_src"
    /\ IF ~ret
       THEN TR_ReturnValue(FALSE) /\ UNCHANGED voaVars
       ELSE /\ voa_org' = dest_org
            /\ voa_caller' = "tr_dst"
            /\ pc' = "voa_get_org"
            /\ ret' = ret
    /\ UNCHANGED <<instanceVars, user_login, validation_done, op, reqVars, trVars,
                   source_org_valid, csvVars, result, trace, countVars>>

\* Faulty variant: validate_repo_access is not called
TR_AfterDestOrg_SkipsRepo ==
    /\ pc = "voa_return"
    /\ voa_caller = "tr_dst"
    /\ IF ~ret
       THEN TR_ReturnValue(FALSE) /\ attempt' = attempt
       ELSE TR_AfterValidation
    /\ UNCHANGED <<instanceVars, user_login, validation_done, op, reqVars,
                   max_retries, retry_delay, tr_base, voaVars, source_org_valid,
                   csvVars, result, trace, countVars>>

\* lines 281-288
TR_AfterDestOrg ==
    /\ pc = "voa_return"
    /\ voa_caller = "tr_dst"
    /\ IF ~ret
       THEN TR_ReturnValue(FALSE)
       ELSE pc' = "vra_get_repo" /\ ret' = ret
    /\ UNCHANGED <<instanceVars, user_login, validation_done, op, reqVars, trVars,
                   voaVars, source_org_valid, csvVars, result, trace, countVars>>

\* Faulty variant: the result of validate_repo_access is ignored
TR_AfterRepo_IgnoresResult ==
    /\ pc = "vra_return"
    /\ TR_AfterValidation
    /\ UNCHANGED <<instanceVars, user_login, validation_done, op, reqVars,
                   max_retries, retry_delay, tr_base, voaVars, source_org_valid,
                   csvVars, result, trace, countVars>>

\* lines 288-306
TR_AfterRepo ==
    /\ pc = "vra_return"
    /\ IF ~ret
       THEN TR_ReturnValue(FALSE) /\ attempt' = attempt
       ELSE TR_AfterValidation
    /\ UNCHANGED <<instanceVars, user_login, validation_done, op, reqVars,
                   max_retries, retry_delay, tr_base, voaVars, source_org_valid,
                   csvVars, result, trace, countVars>>

\* Faulty variant: range(1, max_retries + 2)
TR_NextIteration_OffByOne ==
    IF attempt <= max_retries
    THEN attempt' = attempt + 1 /\ pc' = "tr_post" /\ ret' = ret
    ELSE TR_ReturnValue(FALSE) /\ attempt' = attempt

\* line 306: the for statement takes the next value of range(1, max_retries + 1);
\* line 346: return False once the range is exhausted
TR_NextIteration ==
    IF attempt < max_retries
    THEN attempt' = attempt + 1 /\ pc' = "tr_post" /\ ret' = ret
    ELSE TR_ReturnValue(FALSE) /\ attempt' = attempt

\* lines 306-346: one POST and what the loop does with its response
TR_Post ==
    /\ pc = "tr_post"
    /\ \E r \in PostResponses :
        /\ trace' = Append(trace, PostEvent(source_org, repo_name, dest_org, r))
        /\ LET o == PostOutcome(r, attempt, max_retries)
           IN  CASE o = "success" -> TR_ReturnValue(TRUE) /\ attempt' = attempt
                 [] o = "sleep"   -> pc' = "tr_sleep" /\ UNCHANGED <<ret, attempt>>
                 [] o = "break"   -> TR_ReturnValue(FALSE) /\ attempt' = attempt
                 [] o = "next"    -> TR_NextIteration
    /\ UNCHANGED <<instanceVars, user_login, validation_done, op, reqVars,
                   max_retries, retry_delay, tr_base, voaVars, source_org_valid,
                   csvVars, result, countVars>>

\* lines 327-328 and 342-343: time.sleep(retry_delay); continue
TR_Sleep ==
    /\ pc = "tr_sleep"
    /\ trace' = Append(trace, SleepEvent(retry_delay))
    /\ TR_NextIteration
    /\ UNCHANGED <<instanceVars, user_login, validation_done, op, reqVars,
                   max_retries, retry_delay, tr_base, voaVars,
                   source_org_valid, csvVars, result, countVars>>

----------------------------------------------------------------------------
(* A direct call of transfer_repository on the instance *)

Call_transfer_repository ==
    /\ pc = "idle"
    /\ ncalls < MaxCalls
    /\ ncalls' = ncalls + 1
    /\ \E req \in DirectRequests, mr \in 0..MaxRetriesBound, rd \in RetryDelays :
        /\ source_org' = req.source_org
        /\ repo_name' = req.repo_name
        /\ dest_org' = req.dest_org
        /\ max_retries' = mr
        /\ retry_delay' = rd
    /\ op' = "direct"
    /\ pc' = "tr_entry"
    /\ FreshFrame
    /\ csv_path' = NoFile
    /\ UNCHANGED <<instanceVars, user_login, validation_done, login_writes>>

Return_transfer_repository ==
    /\ pc = "tr_return"
    /\ op = "direct"
    /\ result' = [op |-> "direct", ok |-> ret, successful |-> 0, total |-> 0]
    /\ op' = "none"
    /\ pc' = "idle"
    /\ UNCHANGED <<instanceVars, user_login, validation_done, reqVars, trVars,
                   voaVars, ret, source_org_valid, csvVars, trace, countVars>>

\* transfer._validation_done = True, as the unit tests of the retry loop do
\* before they call transfer_repository
SkipValidation ==
    /\ pc = "idle"
    /\ ~validation_done
    /\ validation_done' = TRUE
    /\ UNCHANGED <<instanceVars, user_login, op, pc, reqVars, trVars, voaVars, ret,
                   source_org_valid, csvVars, result, trace, countVars>>

NextExec ==
    \/ SkipValidation
    \/ Call_transfer_repository
    \/ TR_Entry
    \/ VOA_GetOrg
    \/ VOA_GetMembership
    \/ TR_AfterSourceOrg
    \/ TR_AfterDestOrg
    \/ VRA_GetRepo
    \/ TR_AfterRepo
    \/ TR_Post
    \/ TR_Sleep
    \/ Return_transfer_repository

SpecExec == Init /\ [][NextExec]_vars

----------------------------------------------------------------------------
(* Confirmation prompts *)

\* response == 'y' or response == 'yes'; Ctrl-C returns False
Confirmed(answer) == answer \in {"y", "yes"}

\* a top-level call returns v to its caller
Finish(v) == result' = v /\ op' = "none" /\ pc' = "idle"

BoolResult(o, b) == [op |-> o, ok |-> b, successful |-> 0, total |-> 0]
PairResult(s, t) == [op |-> "csv", ok |-> (t > 0 /\ s = t), successful |-> s, total |-> t]

\* result = self.transfer_repository(source_org, repo_name, dest_org)
\* with the default max_retries and retry_delay
CallTransferWithDefaults ==
    /\ max_retries' = DefaultMaxRetries
    /\ retry_delay' = DefaultRetryDelay
    /\ pc' = "tr_entry"

----------------------------------------------------------------------------
(* process_single_transfer *)

Call_process_single_transfer ==
    /\ pc = "idle"
    /\ ncalls < MaxCalls
    /\ ncalls' = ncalls + 1
    /\ \E req \in Requests :
        /\ source_org' = req.source_org
        /\ repo_name' = req.repo_name
        /\ dest_org' = req.dest_org
    /\ max_retries' = DefaultMaxRetries
    /\ retry_delay' = DefaultRetryDelay
    /\ op' = "single"
    /\ pc' = "vt_get_user"
    /\ FreshFrame
    /\ csv_path' = NoFile
    /\ UNCHANGED <<instanceVars, user_login, validation_done, login_writes>>

\* lines 441-450
PST_AfterToken ==
    /\ pc = "vt_return"
    /\ op = "single"
    /\ IF ~ret
       THEN Finish(BoolResult("single", FALSE)) /\ UNCHANGED voaVars
       ELSE /\ voa_org' = source_org
            /\ voa_caller' = "pst_src"
            /\ pc' = "voa_get_org"
            /\ UNCHANGED <<op, result>>
    /\ UNCHANGED <<instanceVars, user_login, validation_done, reqVars, trVars, ret,
                   source_org_valid, csvVars, trace, countVars>>

\* Faulty variant: a failed source check never aborts
PST_AfterSourceOrg_NeverAborts ==
    /\ pc = "voa_return"
    /\ voa_caller = "pst_src"
    /\ source_org_valid' = ret
    /\ voa_org' = dest_org
    /\ voa_caller' = "pst_dst"
    /\ pc' = "voa_get_org"
    /\ UNCHANGED <<op, result>>
    /\ UNCHANGED <<instanceVars, user_login, validation_done, reqVars, trVars, ret,
                   csvVars, trace, countVars>>

\* Faulty variant: a failed source check aborts in dry-run mode too
PST_AfterSourceOrg_AlwaysAborts ==
    /\ pc = "voa_return"
    /\ voa_caller = "pst_src"
    /\ source_org_valid' = ret
    /\ IF ~ret
       THEN Finish(BoolResult("single", FALSE)) /\ UNCHANGED voaVars
       ELSE /\ voa_org' = dest_org
            /\ voa_caller' = "pst_dst"
            /\ pc' = "voa_get_org"
            /\ UNCHANGED <<op, result>>
    /\ UNCHANGED <<instanceVars, user_login, validation_done, reqVars, trVars, ret,
                   csvVars, trace, countVars>>

\* lines 450-464
PST_AfterSourceOrg ==
    /\ pc = "voa_return"
    /\ voa_caller = "pst_src"
    /\ source_org_valid' = ret
    /\ IF ~ret /\ ~dry_run
       THEN Finish(BoolResult("single", FALSE)) /\ UNCHANGED voaVars
       ELSE /\ voa_org' = dest_org
            /\ voa_caller' = "pst_dst"
            /\ pc' = "voa_get_org"
            /\ UNCHANGED <<op, result>>
    /\ UNCHANGED <<instanceVars, user_login, validation_done, reqVars, trVars, ret,
                   csvVars, trace, countVars>>

\* Faulty variant: a failed destination check never aborts
PST_AfterDestOrg_NeverAborts ==
    /\ pc = "voa_return"
    /\ voa_caller = "pst_dst"
    /\ validation_done' = TRUE
    /\ IF auto_approve
       THEN CallTransferWithDefaults
       ELSE pc' = "pst_prompt" /\ UNCHANGED <<max_retries, retry_delay>>
    /\ UNCHANGED <<op, result>>
    /\ UNCHANGED <<instanceVars, user_login, reqVars, attempt, tr_base, voaVars, ret,
                   source_org_valid, csvVars, trace, countVars>>

\* lines 464-501: dest_org_valid is ret
PST_AfterDestOrg ==
    /\ pc = "voa_return"
    /\ voa_caller = "pst_dst"
    /\ LET all_valid == Truthy(user_login) /\ source_org_valid /\ ret
       IN  IF (~ret /\ ~dry_run) \/ (~all_valid /\ ~dry_run)
           THEN /\ Finish(BoolResult("single", FALSE))
                /\ UNCHANGED <<validation_done, max_retries, retry_delay>>
           ELSE /\ validation_done' = TRUE
                /\ IF auto_approve
                   THEN CallTransferWithDefaults
                   ELSE pc' = "pst_prompt" /\ UNCHANGED <<max_retries, retry_delay>>
                /\ UNCHANGED <<op, result>>
    /\ UNCHANGED <<instanceVars, user_login, reqVars, attempt, tr_base, voaVars, ret,
                   source_org_valid, csvVars, trace, countVars>>

\* lines 493-501 with _prompt_for_confirmation, lines 360-387
\* Faulty variant: a declined prompt leaves _validation_done set
PST_Prompt_DeclineKeepsFlag ==
    /\ pc = "pst_prompt"
    /\ \E answer \in Answers :
        /\ approved' = (answer \in {"y", "yes"})
        /\ IF Confirmed(answer)
           THEN CallTransferWithDefaults /\ UNCHANGED <<op, result>>
           ELSE /\ Finish(BoolResult("single", FALSE))
                /\ UNCHANGED <<max_retries, retry_delay>>
    /\ UNCHANGED <<instanceVars, user_login, validation_done, reqVars, attempt,
                   tr_base, voaVars, ret, source_org_valid, csvVars, trace, ncalls,
                   n_get_user, login_writes, n_tr_calls>>

PST_Prompt ==
    /\ pc = "pst_prompt"
    /\ \E answer \in Answers :
        /\ approved' = (answer \in {"y", "yes"})
        /\ IF Confirmed(answer)
           THEN CallTransferWithDefaults /\ UNCHANGED <<validation_done, op, result>>
           ELSE /\ validation_done' = FALSE
                /\ Finish(BoolResult("single", FALSE))
                /\ UNCHANGED <<max_retries, retry_delay>>
    /\ UNCHANGED <<instanceVars, user_login, reqVars, attempt, tr_base, voaVars, ret,
                   source_org_valid, csvVars, trace, ncalls, n_get_user,
                   login_writes, n_tr_calls>>

\* Faulty variant: the _validation_done flag is not reset
PST_AfterTransfer_KeepsFlag ==
    /\ pc = "tr_return"
    /\ op = "single"
    /\ Finish(BoolResult("single", ret))
    /\ UNCHANGED <<instanceVars, user_login, validation_done, reqVars, trVars,
                   voaVars, ret, source_org_valid, csvVars, trace, countVars>>

\* lines 501-512
PST_AfterTransfer ==
    /\ pc = "tr_return"
    /\ op = "single"
    /\ validation_done' = FALSE
    /\ Finish(BoolResult("single", ret))
    /\ UNCHANGED <<instanceVars, user_login, reqVars, trVars, voaVars, ret,
                   source_org_valid, csvVars, trace, countVars>>

----------------------------------------------------------------------------
(* process_csv_file *)

repos == csv_path.rows

\* row[...].strip() raises AttributeError on a None field
Malformed(row) ==
    row.source_org = PyNone \/ row.repo_name = PyNone \/ row.dest_org = PyNone

Call_process_csv_file ==
    /\ pc = "idle"
    /\ ncalls < MaxCalls
    /\ ncalls' = ncalls + 1
    /\ csv_path' \in CsvFiles
    /\ source_org' = EmptyStr
    /\ repo_name' = EmptyStr
    /\ dest_org' = EmptyStr
    /\ max_retries' = DefaultMaxRetries
    /\ retry_delay' = DefaultRetryDelay
    /\ op' = "csv"
    /\ pc' = "vt_get_user"
    /\ FreshFrame
    /\ UNCHANGED <<instanceVars, user_login, validation_done, login_writes>>

\* lines 576-577: the for statement takes row number n, or the loop is over
\* and lines 601-626 return the counters
CSV_Iterate(n, succ) ==
    IF n <= Len(repos)
    THEN i' = n /\ pc' = "csv_row" /\ UNCHANGED <<op, result>>
    ELSE i' = i /\ Finish(PairResult(succ, total))

\* Faulty variant: the result of validate_token is ignored
CSV_AfterToken_IgnoresToken ==
    /\ pc = "vt_return"
    /\ op = "csv"
    /\ IF ~csv_path.exists \/ ~csv_path.columns_ok \/ repos = <<>>
       THEN Finish(PairResult(0, 0)) /\ i' = i
       ELSE IF ~confirm_each /\ ~auto_approve
            THEN pc' = "csv_batch_prompt" /\ UNCHANGED <<op, result, i>>
            ELSE CSV_Iterate(1, successful)
    /\ UNCHANGED <<instanceVars, user_login, validation_done, reqVars, trVars,
                   voaVars, ret, source_org_valid, csv_path, successful, total,
                   trace, countVars>>

\* lines 531-576
CSV_AfterToken ==
    /\ pc = "vt_return"
    /\ op = "csv"
    /\ IF ~ret \/ ~csv_path.exists \/ ~csv_path.columns_ok \/ repos = <<>>
       THEN Finish(PairResult(0, 0)) /\ i' = i
       ELSE IF ~confirm_each /\ ~auto_approve
            THEN pc' = "csv_batch_prompt" /\ UNCHANGED <<op, result, i>>
            ELSE CSV_Iterate(1, successful)
    /\ UNCHANGED <<instanceVars, user_login, validation_done, reqVars, trVars,
                   voaVars, ret, source_org_valid, csv_path, successful, total,
                   trace, countVars>>

\* lines 572-576 with _prompt_for_batch_confirmation, lines 399-433; the
\* listing strips every field first, so a None field raises before the prompt
\* and the except clause at line 616 returns the counters
\* Faulty variant: the answer to the batch prompt is ignored
CSV_BatchPrompt_IgnoresAnswer ==
    /\ pc = "csv_batch_prompt"
    /\ IF \E k \in 1..Len(repos) : Malformed(repos[k])
       THEN Finish(PairResult(successful, total)) /\ i' = i /\ approved' = approved
       ELSE \E answer \in Answers :
                /\ approved' = (answer \in {"y", "yes"})
                /\ CSV_Iterate(1, successful)
    /\ UNCHANGED <<instanceVars, user_login, validation_done, reqVars, trVars,
                   voaVars, ret, source_org_valid, csv_path, successful, total,
                   trace, ncalls, n_get_user, login_writes, n_tr_calls>>

CSV_BatchPrompt ==
    /\ pc = "csv_batch_prompt"
    /\ IF \E k \in 1..Len(repos) : Malformed(repos[k])
       THEN Finish(PairResult(successful, total)) /\ i' = i /\ approved' = approved
       ELSE \E answer \in Answers :
                /\ approved' = (answer \in {"y", "yes"})
                /\ IF Confirmed(answer)
                   THEN CSV_Iterate(1, successful)
                   ELSE Finish(PairResult(0, 0)) /\ i' = i
    /\ UNCHANGED <<instanceVars, user_login, validation_done, reqVars, trVars,
                   voaVars, ret, source_org_valid, csv_path, successful, total,
                   trace, ncalls, n_get_user, login_writes, n_tr_calls>>

\* lines 591-595: the inter-transfer delay decision, then the executor call
CSV_BeforeTransfer ==
    IF i > 1 /\ ~dry_run
    THEN pc' = "csv_sleep" /\ UNCHANGED <<max_retries, retry_delay>>
    ELSE CallTransferWithDefaults

\* Faulty variant: the row that raised is not counted in the returned total
CSV_Row_MalformedNotCounted ==
    /\ pc = "csv_row"
    /\ total' = total + 1
    /\ trace' = <<>>
    /\ IF Malformed(repos[i])
       THEN /\ Finish(PairResult(successful, total))
            /\ UNCHANGED <<reqVars, max_retries, retry_delay>>
       ELSE /\ source_org' = Strip(repos[i].source_org)
            /\ repo_name' = Strip(repos[i].repo_name)
            /\ dest_org' = Strip(repos[i].dest_org)
            /\ IF confirm_each /\ ~auto_approve
               THEN pc' = "csv_confirm" /\ UNCHANGED <<max_retries, retry_delay>>
               ELSE CSV_BeforeTransfer
            /\ UNCHANGED <<op, result>>
    /\ UNCHANGED <<instanceVars, user_login, validation_done, attempt, tr_base,
                   voaVars, ret, source_org_valid, csv_path, i, successful, countVars>>

\* Faulty variant: every iteration takes the fields of the first row
CSV_Row_TakesFirstRow ==
    /\ pc = "csv_row"
    /\ total' = total + 1
    /\ trace' = <<>>
    /\ IF Malformed(repos[1])
       THEN /\ Finish(PairResult(successful, total + 1))
            /\ UNCHANGED <<reqVars, max_retries, retry_delay>>
       ELSE /\ source_org' = Strip(repos[1].source_org)
            /\ repo_name' = Strip(repos[1].repo_name)
            /\ dest_org' = Strip(repos[1].dest_org)
            /\ IF confirm_each /\ ~auto_approve
               THEN pc' = "csv_confirm" /\ UNCHANGED <<max_retries, retry_delay>>
               ELSE CSV_BeforeTransfer
            /\ UNCHANGED <<op, result>>
    /\ UNCHANGED <<instanceVars, user_login, validation_done, attempt, tr_base,
                   voaVars, ret, source_org_valid, csv_path, i, successful, countVars>>

\* lines 577-591
CSV_Row ==
    /\ pc = "csv_row"
    /\ total' = total + 1
    /\ trace' = <<>>
    /\ IF Malformed(repos[i])
       THEN /\ Finish(PairResult(successful, total + 1))
            /\ UNCHANGED <<reqVars, max_retries, retry_delay>>
       ELSE /\ source_org' = Strip(repos[i].source_org)
            /\ repo_name' = Strip(repos[i].repo_name)
            /\ dest_org' = Strip(repos[i].dest_org)
            /\ IF confirm_each /\ ~auto_approve
               THEN pc' = "csv_confirm" /\ UNCHANGED <<max_retries, retry_delay>>
               ELSE CSV_BeforeTransfer
            /\ UNCHANGED <<op, result>>
    /\ UNCHANGED <<instanceVars, user_login, validation_done, attempt, tr_base,
                   voaVars, ret, source_org_valid, csv_path, i, successful, countVars>>

\* lines 585-595 with _prompt_for_confirmation
\* Faulty variant: a declined row ends the batch
CSV_Confirm_DeclineStopsBatch ==
    /\ pc = "csv_confirm"
    /\ \E answer \in Answers :
        /\ approved' = (answer \in {"y", "yes"})
        /\ IF Confirmed(answer)
           THEN CSV_BeforeTransfer /\ UNCHANGED <<op, result, i>>
           ELSE /\ Finish(PairResult(successful, total))
                /\ UNCHANGED <<i, max_retries, retry_delay>>
    /\ UNCHANGED <<instanceVars, user_login, validation_done, reqVars, attempt,
                   tr_base, voaVars, ret, source_org_valid, csv_path, successful,
                   total, trace, ncalls, n_get_user, login_writes, n_tr_calls>>

CSV_Confirm ==
    /\ pc = "csv_confirm"
    /\ \E answer \in Answers :
        /\ approved' = (answer \in {"y", "yes"})
        /\ IF Confirmed(answer)
           THEN CSV_BeforeTransfer /\ UNCHANGED <<op, result, i>>
           ELSE CSV_Iterate(i + 1, successful) /\ UNCHANGED <<max_retries, retry_delay>>
    /\ UNCHANGED <<instanceVars, user_login, validation_done, reqVars, attempt,
                   tr_base, voaVars, ret, source_org_valid, csv_path, successful,
                   total, trace, ncalls, n_get_user, login_writes, n_tr_calls>>

\* line 593
CSV_Sleep ==
    /\ pc = "csv_sleep"
    /\ trace' = Append(trace, SleepEvent(InterTransferDelay))
    /\ CallTransferWithDefaults
    /\ UNCHANGED <<instanceVars, user_login, validation_done, op, reqVars, attempt,
                   tr_base, voaVars, ret, source_org_valid, csvVars, result, countVars>>

\* Faulty variant: the identity is resolved again after every row
CSV_AfterTransfer_RevalidatesToken ==
    /\ pc = "tr_return"
    /\ op = "csv"
    /\ successful' = (IF ret THEN successful + 1 ELSE successful)
    /\ pc' = "vt_get_user"
    /\ UNCHANGED <<op, result, i>>
    /\ UNCHANGED <<instanceVars, user_login, validation_done, reqVars, trVars,
                   voaVars, ret, source_org_valid, csv_path, total, trace, countVars>>

\* Faulty variant: a failed row ends the batch
CSV_AfterTransfer_AbortsOnFailure ==
    /\ pc = "tr_return"
    /\ op = "csv"
    /\ IF ret
       THEN successful' = successful + 1 /\ CSV_Iterate(i + 1, successful + 1)
       ELSE successful' = successful /\ i' = i
                /\ Finish(PairResult(successful, total))
    /\ UNCHANGED <<instanceVars, user_login, validation_done, reqVars, trVars,
                   voaVars, ret, source_org_valid, csv_path, total, trace, countVars>>

\* Faulty variant: a failed row is handed to transfer_repository again
CSV_AfterTransfer_RetriesRow ==
    /\ pc = "tr_return"
    /\ op = "csv"
    /\ IF ret
       THEN successful' = successful + 1 /\ CSV_Iterate(i + 1, successful + 1)
       ELSE /\ successful' = successful
            /\ pc' = "tr_entry"
            /\ UNCHANGED <<op, result, i>>
    /\ UNCHANGED <<instanceVars, user_login, validation_done, reqVars, trVars,
                   voaVars, ret, source_org_valid, csv_path, total, trace, countVars>>

\* Faulty variant: successful is incremented whatever the result
CSV_AfterTransfer_CountsFailures ==
    /\ pc = "tr_return"
    /\ op = "csv"
    /\ successful' = successful + 1
    /\ CSV_Iterate(i + 1, successful + 1)
    /\ UNCHANGED <<instanceVars, user_login, validation_done, reqVars, trVars,
                   voaVars, ret, source_org_valid, csv_path, total, trace, countVars>>

\* lines 595-599, then the next row
CSV_AfterTransfer ==
    /\ pc = "tr_return"
    /\ op = "csv"
    /\ LET succ == IF ret THEN successful + 1 ELSE successful
       IN  successful' = succ /\ CSV_Iterate(i + 1, succ)
    /\ UNCHANGED <<instanceVars, user_login, validation_done, reqVars, trVars,
                   voaVars, ret, source_org_valid, csv_path, total, trace, countVars>>

----------------------------------------------------------------------------
Next ==
    \/ Call_transfer_repository
    \/ Call_process_single_transfer
    \/ Call_process_csv_file
    \/ VT_GetUser
    \/ VOA_GetOrg
    \/ VOA_GetMembership
    \/ VRA_GetRepo
    \/ TR_Entry
    \/ TR_AfterSourceOrg
    \/ TR_AfterDestOrg
    \/ TR_AfterRepo
    \/ TR_Post
    \/ TR_Sleep
    \/ Return_transfer_repository
    \/ PST_AfterToken
    \/ PST_AfterSourceOrg
    \/ PST_AfterDestOrg
    \/ PST_Prompt
    \/ PST_AfterTransfer
    \/ CSV_AfterToken
    \/ CSV_BatchPrompt
    \/ CSV_Row
    \/ CSV_Confirm
    \/ CSV_Sleep
    \/ CSV_AfterTransfer

Spec == Init /\ [][Next]_vars

----------------------------------------------------------------------------
(* Vocabulary of the properties *)

InProgress422(r) == ~r.raised /\ r.status = 422 /\ r.inprog
Accepted202(r) == ~r.raised /\ r.status = 202

\* transfer_repository is inside its retry loop / has executed its return
InRetryLoop == pc \in {"tr_post", "tr_sleep"}
TrReturned == pc = "tr_return"

\* the call under way skipped its own validation and is a real transfer
RealExecutor == ~dry_run /\ validation_done /\ TrGets = <<>>

AllInProgress(posts) == \A k \in 1..Len(posts) : InProgress422(posts[k].resp)

AllSleepsAreRetryDelay ==
    \A k \in 1..Len(TrSleeps) : TrSleeps[k].secs = retry_delay

\* number of POSTs among the first j events of the executor's I/O
PostsUpTo(j) == Len(SelectKind(SubSeq(TrTrace, 1, j), {"post"}))

ArgsPresent == source_org # EmptyStr /\ repo_name # EmptyStr /\ dest_org # EmptyStr

\* a validation GET of the executor whose response fails the check
FailedCheck(e) ==
    \/ e.kind = "get_org" /\ ~OrgIsOrganization(e.resp)
    \/ e.kind = "get_membership" /\ ~MembershipOk(e.resp)
    \/ e.kind = "get_repo" /\ ~RepoOk(e.resp, e.org)

----------------------------------------------------------------------------
(* C1: with validation already done and in real mode, when the POST        *)
(* responses are k in-progress 422s (0 <= k < max_retries) followed by a   *)
(* 202, transfer_repository has returned True after exactly k+1 POSTs and  *)
(* exactly k sleeps, each of retry_delay seconds; and while only           *)
(* in-progress 422s have arrived and attempts remain, it has not returned: *)
(* it sleeps and posts again.                                              *)
C1_RetryThenSuccess ==
    RealExecutor /\ TrPosts # <<>> =>
        LET n == Len(TrPosts)
            k == n - 1
        IN  /\ (AllInProgress(TrPosts) /\ n < max_retries) =>
                /\ InRetryLoop
                /\ Len(TrSleeps) = (IF pc = "tr_sleep" THEN n - 1 ELSE n)
                /\ AllSleepsAreRetryDelay
            /\ (AllInProgress(SubSeq(TrPosts, 1, k)) /\ Accepted202(TrPosts[n].resp)
                    /\ k < max_retries) =>
                /\ TrReturned \/ pc = "idle"
                /\ ret = TRUE
                /\ Len(TrSleeps) = k
                /\ AllSleepsAreRetryDelay

C1_Witness ==
    /\ RealExecutor
    /\ TrReturned
    /\ ret = TRUE
    /\ max_retries = 3
    /\ Len(TrPosts) = 3
    /\ AllInProgress(SubSeq(TrPosts, 1, 2))
    /\ Len(TrSleeps) = 2

(* C2: when every POST returns the in-progress 422 and max_retries >= 1,   *)
(* transfer_repository keeps going until max_retries POSTs were made, then *)
(* returns False; exactly max_retries - 1 sleeps of retry_delay were made  *)
(* and the last I/O event is the final POST (no sleep after it).           *)
C2_RetryExhausted ==
    (RealExecutor /\ TrPosts # <<>> /\ AllInProgress(TrPosts)) =>
        /\ Len(TrPosts) <= max_retries
        /\ Len(TrPosts) < max_retries => InRetryLoop
        /\ Len(TrPosts) = max_retries =>
            /\ ~InRetryLoop
            /\ ret = FALSE
            /\ Len(TrSleeps) = max_retries - 1
            /\ AllSleepsAreRetryDelay
            /\ TrTrace[Len(TrTrace)].kind = "post"

C2_Witness ==
    /\ RealExecutor
    /\ TrReturned
    /\ ret = FALSE
    /\ max_retries = 3
    /\ Len(TrPosts) = 3
    /\ AllInProgress(TrPosts)

(* C3: when the first POST returns a non-202 status whose body lacks the   *)
(* in-progress text, transfer_repository returns False at once: one POST,  *)
(* no sleep, whatever max_retries >= 1 is.                                 *)
C3_NoRetryOnOtherError ==
    (RealExecutor /\ TrPosts # <<>>
        /\ ~TrPosts[1].resp.raised
        /\ TrPosts[1].resp.status # 202
        /\ ~TrPosts[1].resp.inprog) =>
        /\ ~InRetryLoop
        /\ ret = FALSE
        /\ Len(TrPosts) = 1
        /\ TrSleeps = <<>>

C3_Witness ==
    /\ RealExecutor
    /\ TrReturned
    /\ max_retries = 3
    /\ Len(TrPosts) = 1
    /\ TrPosts[1].resp.status = 403
    /\ ret = FALSE

(* C4: a POST response whose status is neither 202 nor 422 ends the call:  *)
(* it is the last I/O event, the loop is left and the result is False,     *)
(* whatever the body contains.                                             *)
C4_OnlyLocked422Retried ==
    RealExecutor =>
        \A j \in 1..Len(TrTrace) :
            (TrTrace[j].kind = "post" /\ ~TrTrace[j].resp.raised
                /\ TrTrace[j].resp.status \notin {202, 422}) =>
                /\ j = Len(TrTrace)
                /\ ~InRetryLoop
                /\ ret = FALSE

(* C5: a 202 is terminal: the POST that received it is the last I/O event  *)
(* of the request and the loop is left; and in real mode the value         *)
(* returned by transfer_repository is True exactly when its last POST      *)
(* received a 202.                                                         *)
C5_AcceptedIsTerminal ==
    /\ \A j \in 1..Len(TrTrace) :
            (TrTrace[j].kind = "post" /\ Accepted202(TrTrace[j].resp)) =>
                j = Len(TrTrace) /\ ~InRetryLoop
    /\ (TrReturned /\ ~dry_run) =>
            (ret = TRUE <=>
                (TrPosts # <<>> /\ Accepted202(TrPosts[Len(TrPosts)].resp)))

C5_Witness ==
    /\ TrReturned
    /\ ~dry_run
    /\ ret = TRUE
    /\ Len(TrPosts) = 2
    /\ Accepted202(TrPosts[2].resp)

(* C6: a POST that raises on attempt a < max_retries is followed by        *)
(* exactly one sleep of retry_delay and then by attempt a+1; a POST that   *)
(* raises on attempt a = max_retries is the last I/O event and the call    *)
(* returns False.                                                          *)
C6_ExceptionRetried ==
    RealExecutor =>
        \A j \in 1..Len(TrTrace) :
            (TrTrace[j].kind = "post" /\ TrTrace[j].resp.raised) =>
                LET a == PostsUpTo(j)
                    n == Len(TrTrace)
                IN  IF a < max_retries
                    THEN /\ j = n => pc = "tr_sleep" /\ attempt = a
                         /\ j < n => TrTrace[j + 1] = SleepEvent(retry_delay)
                         /\ j + 1 = n => pc = "tr_post" /\ attempt = a + 1
                         /\ j + 1 < n => TrTrace[j + 2].kind = "post"
                    ELSE /\ j = n
                         /\ ~InRetryLoop
                         /\ ret = FALSE

C6_Witness ==
    /\ RealExecutor
    /\ TrReturned
    /\ max_retries = 2
    /\ Len(TrPosts) = 2
    /\ TrPosts[1].resp.raised
    /\ TrPosts[2].resp.raised
    /\ Len(TrSleeps) = 1
    /\ ret = FALSE

(* C7: every POST after the first comes right after a sleep of retry_delay *)
(* seconds, which itself comes right after the previous POST.              *)
C7_DelayBeforeEveryRetry ==
    \A j \in 2..Len(TrTrace) :
        (TrTrace[j].kind = "post" /\ PostsUpTo(j) > 1) =>
            /\ TrTrace[j - 1] = SleepEvent(retry_delay)
            /\ j > 2
            /\ TrTrace[j - 2].kind = "post"

(* C8: the attempts are numbered 1..max_retries, at most max_retries POSTs *)
(* and at most max(max_retries - 1, 0) sleeps are made, a real call with   *)
(* max_retries = 0 returns False without a POST, and every call of         *)
(* transfer_repository returns.                                            *)
C8_Bounds ==
    /\ Len(TrPosts) <= max_retries
    /\ Len(TrSleeps) <= (IF max_retries >= 1 THEN max_retries - 1 ELSE 0)
    /\ InRetryLoop => attempt \in 1..max_retries
    /\ pc = "tr_post" => Len(TrPosts) = attempt - 1
    /\ (TrReturned /\ ~dry_run /\ max_retries = 0) => (ret = FALSE /\ TrPosts = <<>>)

C8_BoundedAndTerminates ==
    /\ []C8_Bounds
    /\ (pc = "tr_entry") ~> (pc = "tr_return")

C8_Witness ==
    /\ TrReturned
    /\ ~dry_run
    /\ max_retries = 3
    /\ Len(TrPosts) = 3
    /\ Len(TrSleeps) = 2

\* The interpreter runs the next statement, and every HTTP call and sleep
\* comes back (with a response or an exception).
FairSpecExec == SpecExec /\ WF_vars(NextExec)

(* C9: in dry-run mode no transfer POST and no sleep is ever made, by any  *)
(* sequence of transfer_repository, process_single_transfer and            *)
(* process_csv_file calls.                                                 *)
C9_DryRunNoPostNoSleep ==
    dry_run => (Posts = <<>> /\ Sleeps = <<>> /\ pc \notin {"tr_post", "tr_sleep", "csv_sleep"})

C9_Witness ==
    /\ dry_run
    /\ op = "csv"
    /\ TrReturned
    /\ ret = TRUE
    /\ i = 2
    /\ successful = 1
    /\ Len(TrGets) = 5

----------------------------------------------------------------------------
(* Vocabulary of the validation-gate properties *)

\* control is inside transfer_repository (its own validation included)
InExecutor ==
    \/ pc \in {"tr_post", "tr_sleep", "tr_return", "vra_get_repo", "vra_return"}
    \/ pc \in {"voa_get_org", "voa_get_membership", "voa_return"}
        /\ voa_caller \in {"tr_src", "tr_dst"}

(* C11 as stated: in dry-run mode transfer_repository performs no network  *)
(* call at all.                                                            *)
C11_DryRunNoNetwork ==
    (dry_run /\ InExecutor) => TrTrace = <<>>

(* C11 amended: in dry-run mode transfer_repository never posts and never  *)
(* sleeps; it performs no network call at all when _validation_done is set *)
(* or a parameter is empty; otherwise its validation GETs (at most five)   *)
(* come before the dry-run check, and a True result follows all five.      *)
C11_DryRunCheckAfterValidation ==
    (dry_run /\ InExecutor) =>
        /\ TrPosts = <<>>
        /\ TrSleeps = <<>>
        /\ (validation_done \/ ~ArgsPresent) => TrTrace = <<>>
        /\ Len(TrTrace) <= 5
        /\ (TrReturned /\ ret = TRUE /\ ~validation_done) => Len(TrTrace) = 5

C11_Witness ==
    /\ dry_run
    /\ op = "single"
    /\ validation_done
    /\ TrReturned
    /\ ret = TRUE
    /\ TrTrace = <<>>
    /\ Len(trace) = 5

\* the executor's own validation ran and every check made so far passed
ExecutorChecksPassed ==
    /\ InExecutor
    /\ ~validation_done
    /\ \A k \in 1..Len(TrGets) : ~FailedCheck(TrGets[k])

\* the five validation GETs of one request, in the order of lines 275-293
ExpectedGets ==
    << GetOrgEvent(source_org, [raised |-> FALSE]),
       GetMembershipEvent(source_org, user_login, [raised |-> FALSE]),
       GetOrgEvent(dest_org, [raised |-> FALSE]),
       GetMembershipEvent(dest_org, user_login, [raised |-> FALSE]),
       GetRepoEvent(source_org, repo_name, [raised |-> FALSE]) >>

\* event e is the same call (endpoint and arguments) as event x
SameCall(e, x) ==
    /\ e.kind = x.kind
    /\ e.kind # "get_user" => e.org = x.org
    /\ e.kind = "get_membership" => e.login = x.login
    /\ e.kind = "get_repo" => e.repo = x.repo

(* C12: in real mode, when the source-org, destination-org and repository  *)
(* checks of transfer_repository all pass and the first POST returns 202,  *)
(* the call has returned True after exactly six I/O events: the GETs for   *)
(* source org, source membership, destination org, destination membership  *)
(* and repository, in that order, then one POST to the source repository's *)
(* transfer endpoint with new_owner = dest_org; there is no sleep. With    *)
(* all checks passed and max_retries >= 1 it does not return without a     *)
(* POST.                                                                   *)
C12_ValidatedFirstAttemptSuccess ==
    /\ (~dry_run /\ ExecutorChecksPassed /\ TrPosts # <<>>
            /\ Accepted202(TrPosts[1].resp)) =>
        /\ TrReturned
        /\ ret = TRUE
        /\ Len(TrTrace) = 6
        /\ \A k \in 1..5 : SameCall(TrTrace[k], ExpectedGets[k])
        /\ TrTrace[6].kind = "post"
        /\ TrTrace[6].org = source_org
        /\ TrTrace[6].repo = repo_name
        /\ TrTrace[6].new_owner = dest_org
        /\ TrSleeps = <<>>
    /\ (~dry_run /\ ExecutorChecksPassed /\ TrReturned /\ TrPosts = <<>>
            /\ Len(TrGets) = 5) => max_retries = 0

C12_Witness ==
    /\ ~dry_run
    /\ op = "csv"
    /\ ExecutorChecksPassed
    /\ TrReturned
    /\ ret = TRUE
    /\ Len(TrPosts) = 1
    /\ Accepted202(TrPosts[1].resp)
    /\ Len(TrGets) = 5

\* a passing response to a GET of the given kind for org precedes position j
PassedBefore(j, kind, org) ==
    \E a \in 1..(j - 1) :
        /\ trace[a].kind = kind
        /\ trace[a].org = org
        /\ ~FailedCheck(trace[a])

\* every POST of the request follows passing org, membership and repo checks
ChecksBeforePost ==
    \A j \in 1..Len(trace) :
        trace[j].kind = "post" =>
            /\ PassedBefore(j, "get_org", source_org)
            /\ PassedBefore(j, "get_membership", source_org)
            /\ PassedBefore(j, "get_org", dest_org)
            /\ PassedBefore(j, "get_membership", dest_org)
            /\ PassedBefore(j, "get_repo", source_org)

(* C13: in real mode, in process_single_transfer and in process_csv_file,  *)
(* the transfer POST of a request is issued only after the source-org      *)
(* check, the destination-org check and the repository ownership check    *)
(* have all passed for that request.                                       *)
C13_PostOnlyAfterFullValidation ==
    (~dry_run /\ op \in {"single", "csv"}) => ChecksBeforePost

\* the GET of the destination organization was answered with a non-200 status
DestOrgNon200 ==
    \E k \in 1..Len(trace) :
        /\ trace[k].kind = "get_org"
        /\ trace[k].org = dest_org
        /\ ~trace[k].resp.raised
        /\ trace[k].resp.status # 200

\* the last I/O event of the request is the destination-organization GET
LastIsDestOrgGet ==
    /\ trace # <<>>
    /\ trace[Len(trace)].kind = "get_org"
    /\ trace[Len(trace)].org = dest_org

RequestGets == SelectKind(trace, GetKinds)

\* the validation order of a request: identity first where the request's
\* trace holds it (process_* entry), then the executor's five GETs
ExpectedOrder ==
    IF trace # <<>> /\ trace[1].kind = "get_user"
    THEN <<GetUserEvent([raised |-> FALSE])>> \o ExpectedGets
    ELSE ExpectedGets

\* a validation GET whose response fails its check, identity included
FailedValidation(e) ==
    \/ e.kind = "get_user" /\ ~TokenOk(e.resp)
    \/ e.kind # "get_user" /\ FailedCheck(e)

(* C15: in real mode the validation GETs of a request are issued in the    *)
(* fixed order identity, source org (organization, then membership),       *)
(* destination org (organization, then membership), repository, all of     *)
(* them before any POST; and once a check fails it is the last I/O event   *)
(* of the request: no later GET and no POST follows.                       *)
C15_OrderedShortCircuit ==
    ~dry_run =>
        /\ Len(RequestGets) <= Len(ExpectedOrder)
        /\ \A k \in 1..Len(RequestGets) : SameCall(RequestGets[k], ExpectedOrder[k])
        /\ \A j, k \in 1..Len(trace) :
                (j < k /\ trace[j].kind = "post") => trace[k].kind \notin GetKinds
        /\ (op = "single" /\ trace # <<>>) => trace[1].kind = "get_user"
        /\ (op = "csv" /\ trace # <<>> /\ trace[1].kind # "get_user") =>
                n_get_user = 1
        /\ \A k \in 1..Len(trace) : FailedValidation(trace[k]) => k = Len(trace)

C15_Witness ==
    /\ ~dry_run
    /\ op = "csv"
    /\ pc = "tr_return"
    /\ ret = FALSE
    /\ Len(trace) = 3
    /\ FailedValidation(trace[3])

\* the identity GET of the current call returned non-200 or raised
IdentityFailed ==
    /\ n_get_user >= 1
    /\ trace # <<>>
    /\ trace[1].kind = "get_user"
    /\ (trace[1].resp.raised \/ trace[1].resp.status # 200)

(* C16: when the identity GET returns non-200 or raises, in real and in    *)
(* dry-run mode, it is the only I/O event of the call: no organization,    *)
(* membership, repository or transfer call follows, no row is processed,   *)
(* process_single_transfer returns False and process_csv_file returns      *)
(* (0, 0).                                                                 *)
C16_IdentityFailureIsFatal ==
    IdentityFailed =>
        /\ Len(trace) = 1
        /\ pc \in {"vt_return", "idle"}
        /\ i = 0 /\ total = 0 /\ successful = 0
        /\ ~validation_done
        /\ pc = "idle" =>
            result \in {BoolResult("single", FALSE), PairResult(0, 0)}

C16_Witness ==
    /\ IdentityFailed
    /\ trace[1].resp.raised
    /\ dry_run
    /\ pc = "idle"
    /\ result = PairResult(0, 0)
    /\ csv_path.exists /\ csv_path.columns_ok /\ Len(repos) = MaxRows

(* C17: one run of process_single_transfer or of process_csv_file issues   *)
(* the identity GET exactly once, whatever the number of rows and their    *)
(* outcomes: none has been issued on entry, when nothing else has happened *)
(* yet; exactly one has been issued at every later point of the run and at *)
(* its return; and it is the first I/O event, never a later one.           *)
C17_IdentityResolvedOnce ==
    /\ n_get_user <= 1
    /\ (op \in {"single", "csv"} /\ pc = "vt_get_user") =>
            (n_get_user = 0 /\ trace = <<>> /\ i = 0 /\ total = 0)
    /\ (op \in {"single", "csv"} /\ pc # "vt_get_user") => n_get_user = 1
    /\ (pc = "idle" /\ result.op \in {"single", "csv"}) => n_get_user = 1
    /\ \A k \in 2..Len(trace) : trace[k].kind # "get_user"
    /\ (op = "csv" /\ total >= 1 /\ trace # <<>>) => trace[1].kind # "get_user"

C17_Witness ==
    /\ op = "csv"
    /\ pc = "tr_return"
    /\ i = 2
    /\ total = 2
    /\ successful = 1
    /\ ret = FALSE
    /\ n_get_user = 1

(* C18 as stated: across any sequence of process_single_transfer and       *)
(* process_csv_file calls on one instance, user_login is assigned at most  *)
(* once.                                                                   *)
C18_LoginAssignedAtMostOnce ==
    login_writes <= 1

(* C18 amended: user_login is assigned only by validate_token, at most     *)
(* once per process_* call, as the first I/O of that call, and is not      *)
(* touched for the rest of the call; a later call assigns it again. The    *)
(* only other mutable field, _validation_done, is False whenever a call    *)
(* has returned and at the start of every CSV row.                         *)
C18_LoginAssignedOncePerCall ==
    /\ [](login_writes <= ncalls)
    /\ []((pc \in {"idle", "csv_row"}) => ~validation_done)
    /\ [][(user_login' # user_login \/ login_writes' # login_writes) =>
            /\ pc = "vt_get_user"
            /\ n_get_user = 0
            /\ trace = <<>>
            /\ login_writes' = login_writes + 1]_vars

C18_Witness ==
    /\ ncalls = 2
    /\ login_writes = 2
    /\ pc = "vt_return"
    /\ ret = TRUE

\* the response to the identity GET issued by the current step
UserResponseOfStep == trace'[Len(trace')].resp

(* C19: validate_token returns False and leaves user_login exactly as it   *)
(* was when the identity GET returns non-200 or raises; on a 200 it        *)
(* returns True and sets user_login to the login of the response; and      *)
(* user_login is None as long as no resolution has succeeded.              *)
C19_FailedIdentityKeepsLogin ==
    /\ [](login_writes = 0 => user_login = PyNone)
    /\ [][pc = "vt_get_user" =>
            /\ pc' = "vt_return"
            /\ Len(trace') = Len(trace) + 1
            /\ trace'[Len(trace')].kind = "get_user"
            /\ IF UserResponseOfStep.raised \/ UserResponseOfStep.status # 200
               THEN ret' = FALSE /\ user_login' = user_login
               ELSE ret' = TRUE /\ user_login' = UserResponseOfStep.login]_vars

C19_Witness ==
    /\ pc = "vt_return"
    /\ ret = FALSE
    /\ trace[1].resp.raised
    /\ user_login = Login
    /\ login_writes = 1

\* a validation check of the current row failed
RowValidationFailed == \E k \in 1..Len(trace) : FailedCheck(trace[k])

\* transfer_repository has returned False for row i of a batch
RowFailed == op = "csv" /\ pc = "tr_return" /\ ret = FALSE

(* C20 as stated: in a real-mode batch the first row whose validation      *)
(* fails ends the run, and the returned total is the index of that row.    *)
C20_FirstFailureAborts ==
    [][(~dry_run /\ RowFailed /\ RowValidationFailed) =>
            (pc' = "idle" /\ result'.total = i)]_vars

(* C20 amended: a row whose validation (or transfer) fails is counted in   *)
(* total, not in successful, and does not end the run: the next row is     *)
(* taken, and after the last row the result is (successful, number of      *)
(* rows); whenever rows were processed and none is malformed the returned  *)
(* total is the number of rows.                                            *)
C20_FailedRowDoesNotAbort ==
    /\ [][(RowFailed /\ i < Len(repos)) =>
            /\ pc' = "csv_row"
            /\ i' = i + 1
            /\ total' = total
            /\ successful' = successful]_vars
    /\ [][(RowFailed /\ i = Len(repos)) =>
            /\ pc' = "idle"
            /\ result' = PairResult(successful, Len(repos))]_vars
    /\ []((pc = "idle" /\ result.op = "csv" /\ result.total > 0
            /\ \A k \in 1..Len(repos) : ~Malformed(repos[k])) =>
                result.total = Len(repos))

C20_Witness ==
    /\ ~dry_run
    /\ op = "csv"
    /\ pc = "csv_row"
    /\ i = 2
    /\ total = 1
    /\ successful = 0
    /\ RowValidationFailed

----------------------------------------------------------------------------
(* Vocabulary of the batch properties *)

\* no per-row confirmation prompt is shown, so no row can be declined
NoRowPrompt == auto_approve \/ ~confirm_each

\* none of the first n rows has a None field
WellFormedUpTo(n) == \A k \in 1..n : k <= Len(repos) => ~Malformed(repos[k])

\* positions of the row loop before / after the executor call of row i
BeforeExecutor == pc \in {"csv_row", "csv_confirm", "csv_sleep", "tr_entry"}
InRowLoop == op = "csv" /\ i >= 1

(* C21: in process_csv_file a failed transfer does not stop the batch.     *)
(* When transfer_repository returns for row i, whatever its result, the    *)
(* loop takes row i+1, or returns after the last row; a row is left only   *)
(* after its transfer_repository call returned or its prompt was declined. *)
(* Where no row can be declined and no row is malformed,                   *)
(* transfer_repository has been invoked exactly once for every row handled *)
(* so far, and the returned total and the number of invocations both equal *)
(* the number of rows.                                                     *)
C21_FailedTransferContinues ==
    /\ [][(op = "csv" /\ pc = "tr_return") =>
            IF i < Len(repos)
            THEN pc' = "csv_row" /\ i' = i + 1 /\ n_tr_calls' = n_tr_calls
            ELSE pc' = "idle" /\ result'.total = Len(repos)]_vars
    /\ [][(InRowLoop /\ i' # i) =>
            (i' = i + 1 /\ pc \in {"tr_return", "csv_confirm"})]_vars
    /\ []((InRowLoop /\ NoRowPrompt /\ WellFormedUpTo(i)) =>
            n_tr_calls = (IF BeforeExecutor THEN i - 1 ELSE i))
    /\ []((pc = "idle" /\ result.op = "csv" /\ result.total > 0
            /\ NoRowPrompt /\ WellFormedUpTo(Len(repos))) =>
                (result.total = Len(repos) /\ n_tr_calls = Len(repos)))

C21_Witness ==
    /\ ~dry_run
    /\ op = "csv"
    /\ pc = "tr_return"
    /\ i = 2
    /\ n_tr_calls = 2
    /\ successful = 0
    /\ ret = TRUE

(* C22: throughout process_csv_file 0 <= successful <= total <= number of  *)
(* rows; total is incremented by one exactly when a row is started (so it  *)
(* equals the number of rows started); successful is incremented by one    *)
(* exactly when the transfer_repository call of a row returned True; and   *)
(* the returned pair is (successful, total).                               *)
C22_CountersConsistent ==
    /\ [](0 <= successful /\ successful <= total /\ total <= Len(repos))
    /\ [](InRowLoop => total = (IF pc = "csv_row" THEN i - 1 ELSE i))
    /\ [][(pc # "idle" /\ total' # total) =>
            (pc = "csv_row" /\ total' = total + 1)]_vars
    /\ [][pc = "csv_row" => total' = total + 1]_vars
    /\ [][(pc # "idle" /\ successful' # successful) =>
            (op = "csv" /\ pc = "tr_return" /\ ret = TRUE)]_vars
    /\ [][(op = "csv" /\ pc = "tr_return") =>
            successful' = (IF ret THEN successful + 1 ELSE successful)]_vars
    /\ [][(op = "csv" /\ pc' = "idle") =>
            result' = PairResult(successful', total')]_vars

C22_Witness ==
    /\ pc = "idle"
    /\ result.op = "csv"
    /\ result.successful = 1
    /\ result.total = 2
    /\ successful = 1
    /\ total = 2
    /\ n_tr_calls = 2

\* row i raises when its fields are stripped (line 578-580)
RowRaises == i >= 1 /\ i <= Len(repos) /\ Malformed(repos[i])

(* C23: when an exception is raised while process_csv_file handles row i   *)
(* (a None field makes strip() raise), the call returns normally at once,  *)
(* with no I/O and no transfer_repository call for row i, no later row is  *)
(* started, and the returned pair is (successful, i): successful is the    *)
(* number of successes among rows 1..i-1 and row i is counted in total.    *)
C23_ExceptionStopsBatch ==
    /\ [][(pc = "csv_row" /\ RowRaises) =>
            /\ pc' = "idle"
            /\ result' = PairResult(successful, i)
            /\ successful' = successful
            /\ trace' = <<>>
            /\ n_tr_calls' = n_tr_calls]_vars
    /\ []((op = "csv" /\ RowRaises) => (pc = "csv_row" /\ total = i - 1))
    /\ []((pc = "idle" /\ result.op = "csv" /\ RowRaises) =>
            /\ result.total = i
            /\ result.successful = successful
            /\ trace = <<>>
            /\ n_tr_calls <= i - 1)

C23_Witness ==
    /\ pc = "idle"
    /\ RowRaises
    /\ i = 2
    /\ result = PairResult(1, 2)
    /\ n_tr_calls = 1

\* transfer_repository is about to run, or is running, for a CSV row
RowExecutor == op = "csv" /\ (pc = "tr_entry" \/ InExecutor)

\* what the row did before its transfer_repository call
PreExecutorTrace ==
    SubSeq(trace, 1, IF pc = "tr_entry" THEN Len(trace) ELSE tr_base)

\* transfer_repository invocations of the run before the one of this row
PriorExecutorCalls == IF pc = "tr_entry" THEN n_tr_calls ELSE n_tr_calls - 1

(* C24: in a real-mode batch the inter-transfer delay is not invoked       *)
(* before the first transfer_repository invocation of the run and is       *)
(* invoked exactly once, for 5 seconds, between two consecutive            *)
(* invocations, also when rows are skipped by the per-row confirmation; in *)
(* dry-run mode it is never invoked.                                       *)
C24_DelayOnlyBetweenExecutorCalls ==
    RowExecutor =>
        PreExecutorTrace =
            (IF ~dry_run /\ PriorExecutorCalls >= 1
             THEN <<SleepEvent(InterTransferDelay)>>
             ELSE <<>>)

\* transfer_repository validated the row itself and all five checks passed
RowValidationPassed ==
    /\ Len(TrGets) = 5
    /\ \A k \in 1..5 : ~FailedCheck(TrGets[k])

----------------------------------------------------------------------------
(* Vocabulary of the single-transfer properties *)

\* an organization check of process_single_transfer has just returned False
SingleOrgCheckFailed == op = "single" /\ pc = "voa_return" /\ ret = FALSE

\* the organization GET for org is in the trace of the request
OrgChecked(org) ==
    \E k \in 1..Len(trace) : trace[k].kind = "get_org" /\ trace[k].org = org

(* C26 as stated: in dry-run mode, once confirmed, process_single_transfer *)
(* returns success although an organization check failed.                  *)
C26_DryRunSingleSucceeds ==
    (dry_run /\ op = "single" /\ pc = "tr_return" /\ RowValidationFailed) =>
        ret = TRUE

(* C26 amended: in dry-run mode a failed source or destination check does  *)
(* not abort process_single_transfer: it goes on to the next step, both    *)
(* organizations are checked before the transfer is simulated, and the     *)
(* simulated transfer makes no I/O and succeeds exactly when the three     *)
(* parameters are non-empty; in real mode the failed check makes it return *)
(* False at once, with no further I/O.                                     *)
C26_DryRunSingleContinues ==
    /\ [][(dry_run /\ SingleOrgCheckFailed) =>
            /\ pc' \in {"voa_get_org", "pst_prompt", "tr_entry"}
            /\ op' = "single"]_vars
    /\ [][(~dry_run /\ SingleOrgCheckFailed) =>
            /\ pc' = "idle"
            /\ result' = BoolResult("single", FALSE)
            /\ trace' = trace]_vars
    /\ []((dry_run /\ op = "single" /\ pc = "tr_return") =>
            /\ OrgChecked(source_org)
            /\ OrgChecked(dest_org)
            /\ TrTrace = <<>>
            /\ ret = ArgsPresent)

C26_Witness ==
    /\ dry_run
    /\ ~auto_approve
    /\ op = "single"
    /\ pc = "tr_return"
    /\ ret = TRUE
    /\ Len(trace) >= 2
    /\ FailedCheck(trace[2])

\* the validation calls of the request after identity resolution
ValidationGets == SelectKind(trace, {"get_org", "get_membership", "get_repo"})

\* the call sequence with which the batch pipeline reports a success: the
\* five validation GETs in order, all passing, before anything is posted
BatchSuccessSequence ==
    /\ Len(ValidationGets) = 5
    /\ \A k \in 1..5 :
        /\ SameCall(ValidationGets[k], ExpectedGets[k])
        /\ ~FailedCheck(ValidationGets[k])
    /\ ChecksBeforePost

(* C27: the single-transfer path is the one-row case of the batch          *)
(* pipeline: with the same responses, in real mode, a request reported     *)
(* successful by process_single_transfer has issued, after identity        *)
(* resolution, the call sequence with which process_csv_file reports a     *)
(* success for that row.                                                   *)
C27_SingleIsBatchOfOne ==
    (~dry_run /\ op \in {"single", "csv"} /\ pc = "tr_return" /\ ret = TRUE) =>
        BatchSuccessSequence

\* event e is a call made for the request (source_org, repo_name, dest_org)
EventOfRequest(e) ==
    /\ e.kind \in {"get_org", "get_membership"} => e.org \in {source_org, dest_org}
    /\ e.kind = "get_repo" => (e.org = source_org /\ e.repo = repo_name)
    /\ e.kind = "post" =>
        (e.org = source_org /\ e.repo = repo_name /\ e.new_owner = dest_org)
    /\ e.kind # "get_user"

\* row i has been read and its request is being handled
HandlingRow == op = "csv" /\ i >= 1 /\ pc # "csv_row"

(* C28: process_csv_file handles the rows one at a time in file order.     *)
(* The row index only ever advances by one, and only after the             *)
(* transfer_repository call of the row has returned or the row was         *)
(* declined; while row i is handled the request is (the stripped fields    *)
(* of) row i and every call made is a call for that request; I/O steps     *)
(* never change the row, each step makes at most one call, and the calls   *)
(* of a row are recorded in the order made until the next row is started.  *)
C28_SequentialInOrder ==
    /\ [][(op = "csv" /\ i' # i) =>
            /\ i' = i + 1
            /\ pc \in {"vt_return", "csv_batch_prompt", "tr_return", "csv_confirm"}
            /\ pc' = "csv_row"]_vars
    /\ []((HandlingRow /\ ~RowRaises) =>
            /\ source_org = Strip(repos[i].source_org)
            /\ repo_name = Strip(repos[i].repo_name)
            /\ dest_org = Strip(repos[i].dest_org)
            /\ \A k \in 1..Len(trace) : EventOfRequest(trace[k]))
    /\ [][(op = "csv" /\ trace' # trace) =>
            \/ pc = "csv_row" /\ trace' = <<>>
            \/ /\ Len(trace') = Len(trace) + 1
               /\ SubSeq(trace', 1, Len(trace)) = trace
               /\ i' = i]_vars

C28_Witness ==
    /\ ~dry_run
    /\ op = "csv"
    /\ pc = "tr_return"
    /\ i = 2
    /\ Strip(repos[1].source_org) # Strip(repos[2].source_org)
    /\ Len(TrPosts) = 1
    /\ Len(TrGets) = 5

----------------------------------------------------------------------------
(* Vocabulary of the organization-check properties *)

\* response r is a 200 whose body says the account is an organization
Is200Organization(r) == ~r.raised /\ r.status = 200 /\ r.type = "Organization"

\* response r is a 200 with an active membership of role admin or member
Is200ActiveMember(r) ==
    /\ ~r.raised
    /\ r.status = 200
    /\ r.state = "active"
    /\ r.role \in {"admin", "member"}

\* validate_org_access has just returned
OrgCheckReturned == pc = "voa_return"

\* the last and the last but one I/O event
LastEvent == trace[Len(trace)]
PrevEvent == trace[Len(trace) - 1]

(* C29: validate_org_access(org) returns True if and only if the GET of    *)
(* the organization returned 200 with type 'Organization' and the GET of   *)
(* the membership of the cached login in that organization returned 200    *)
(* with state 'active' and role admin or member; every other combination   *)
(* of responses, exceptions included, gives False.                         *)
C29_OrgValidIff ==
    OrgCheckReturned =>
        (ret = TRUE <=>
            /\ Len(trace) >= 2
            /\ PrevEvent.kind = "get_org"
            /\ PrevEvent.org = voa_org
            /\ Is200Organization(PrevEvent.resp)
            /\ LastEvent.kind = "get_membership"
            /\ LastEvent.org = voa_org
            /\ LastEvent.login = user_login
            /\ Is200ActiveMember(LastEvent.resp))

C29_Witness ==
    /\ OrgCheckReturned
    /\ ret = TRUE
    /\ LastEvent.kind = "get_membership"
    /\ LastEvent.resp.role = "member"
    /\ voa_org = dest_org

(* C30: validate_org_access issues the membership GET only directly after  *)
(* an organization GET for the same organization that returned 200 with    *)
(* type 'Organization'; when the organization GET returns non-200, another *)
(* type, or raises, that GET is the only one issued and the result is      *)
(* False.                                                                  *)
C30_MembershipOnlyAfterOrganization ==
    /\ [](\A k \in 1..Len(trace) :
            trace[k].kind = "get_membership" =>
                /\ k >= 2
                /\ trace[k - 1].kind = "get_org"
                /\ trace[k - 1].org = trace[k].org
                /\ Is200Organization(trace[k - 1].resp))
    /\ [][pc = "voa_get_org" =>
            /\ Len(trace') = Len(trace) + 1
            /\ SubSeq(trace', 1, Len(trace)) = trace
            /\ trace'[Len(trace')].kind = "get_org"
            /\ trace'[Len(trace')].org = voa_org
            /\ IF Is200Organization(trace'[Len(trace')].resp)
               THEN pc' = "voa_get_membership"
               ELSE pc' = "voa_return" /\ ret' = FALSE]_vars
    /\ []((OrgCheckReturned /\ LastEvent.kind = "get_org") =>
            (ret = FALSE /\ ~Is200Organization(LastEvent.resp)))

C30_Witness ==
    /\ OrgCheckReturned
    /\ ret = FALSE
    /\ LastEvent.kind = "get_org"
    /\ LastEvent.resp.status = 200
    /\ LastEvent.resp.type = "User"

----------------------------------------------------------------------------
(* Vocabulary of the repository-check and exception properties *)

\* validate_repo_access has just returned
RepoCheckReturned == pc = "vra_return"

\* s and t are the same string up to the case of their letters
SameIgnoringCase(s, t) ==
    /\ Len(s) = Len(t)
    /\ \A k \in 1..Len(s) : LowerChar(s[k]) = LowerChar(t[k])

\* response r is a 200 naming an owner other than org (case ignored)
IsWrongOwner(r, org) ==
    ~r.raised /\ r.status = 200 /\ r.has_owner /\ ~SameIgnoringCase(r.owner, org)

\* response r carries a status other than 200
IsNon200(r) == ~r.raised /\ r.status # 200

C32_WrongOwnerDistinctFromNotFound ==
    (RepoCheckReturned /\ IsWrongOwner(LastEvent.resp, source_org)) =>
        \A r \in RepoResponses : IsNon200(r) => ret # RepoOk(r, source_org)

(* C32 amended: validate_repo_access returns the same value, False, for a  *)
(* 200 response with the wrong owner and for a non-200 response, and its   *)
(* caller transfer_repository returns False in both cases with no further  *)
(* I/O.                                                                    *)
C32_WrongOwnerSameAsNotFound ==
    /\ []((RepoCheckReturned /\ (IsWrongOwner(LastEvent.resp, source_org)
                                    \/ IsNon200(LastEvent.resp))) =>
            ret = FALSE)
    /\ [][(RepoCheckReturned /\ ret = FALSE) =>
            (pc' = "tr_return" /\ ret' = FALSE /\ trace' = trace)]_vars

C32_Witness ==
    /\ RepoCheckReturned
    /\ LastEvent.resp.status = 200
    /\ LastEvent.resp.owner = OrgB
    /\ source_org = OrgA
    /\ ret = FALSE

\* the step issues one GET and the call raises
GetRaises ==
    /\ Len(trace') = Len(trace) + 1
    /\ trace'[Len(trace')].kind \in GetKinds
    /\ trace'[Len(trace')].resp.raised

(* C33: an exception raised by the GET of validate_token, by the           *)
(* organization GET or the membership GET of validate_org_access, or by    *)
(* the GET of validate_repo_access is not propagated: the validator        *)
(* returns normally, and it returns False.                                 *)
C33_GetExceptionIsFailure ==
    /\ [][GetRaises =>
            /\ ret' = FALSE
            /\ pc' = (CASE pc = "vt_get_user" -> "vt_return"
                        [] pc = "voa_get_org" -> "voa_return"
                        [] pc = "voa_get_membership" -> "voa_return"
                        [] pc = "vra_get_repo" -> "vra_return"
                        [] OTHER -> "none")
            /\ op' = op
            /\ user_login' = user_login]_vars
    /\ []((pc \in {"vt_return", "voa_return", "vra_return"}
            /\ LastEvent.resp.raised) => ret = FALSE)

C33_Witness ==
    /\ OrgCheckReturned
    /\ LastEvent.kind = "get_membership"
    /\ LastEvent.resp.raised
    /\ ret = FALSE

(* C34: with an empty source organization, repository name or destination  *)
(* organization, transfer_repository returns False without any HTTP        *)
(* request and without sleeping, in dry-run and in real mode and whatever  *)
(* the value of _validation_done.                                          *)
C34_EmptyParameterFailsWithoutIO ==
    /\ []((op = "direct" /\ ~ArgsPresent /\ pc # "tr_entry") =>
            (pc = "tr_return" /\ ret = FALSE /\ trace = <<>>))
    /\ [][(pc = "tr_entry" /\ op = "direct" /\ ~ArgsPresent) =>
            (pc' = "tr_return" /\ ret' = FALSE /\ trace' = <<>>
             /\ validation_done' = validation_done)]_vars
    /\ [][(pc = "tr_return" /\ op = "direct" /\ ~ArgsPresent) =>
            (pc' = "idle" /\ result' = BoolResult("direct", FALSE))]_vars

C34_Witness ==
    /\ op = "direct"
    /\ pc = "tr_return"
    /\ dest_org = EmptyStr
    /\ source_org # EmptyStr
    /\ repo_name # EmptyStr
    /\ validation_done
    /\ ~dry_run
    /\ ret = FALSE
    /\ trace = <<>>

----------------------------------------------------------------------------
(* main: the exit code computed from what the selected mode returned *)

\* Faulty variant: an empty batch is reported as a success
ExitCode_EmptyBatchSucceeds(res) ==
    IF res.op = "csv"
    THEN IF res.successful < res.total THEN 1 ELSE 0
    ELSE IF res.ok THEN 0 ELSE 1

\* sys.exit argument of main for the value res returned by process_csv_file
\* (a pair) or by process_single_transfer (a bool)
ExitCode(res) ==
    IF res.op = "csv"
    THEN IF res.total = 0
         THEN 1
         ELSE IF res.successful < res.total THEN 1 ELSE 0
    ELSE IF res.ok THEN 0 ELSE 1

\* a call made by main has returned
MainCallReturned == pc = "idle" /\ result.op \in {"csv", "single"}

(* C35: the exit code of main is 0 or 1; in CSV mode it is 0 if and only   *)
(* if process_csv_file returned total > 0 and successful = total; in       *)
(* single mode it is 0 if and only if process_single_transfer returned     *)
(* True.                                                                   *)
C35_ExitCodeReflectsResult ==
    MainCallReturned =>
        /\ ExitCode(result) \in {0, 1}
        /\ result.op = "csv" =>
            (ExitCode(result) = 0 <=>
                (result.total > 0 /\ result.successful = result.total))
        /\ result.op = "single" => (ExitCode(result) = 0 <=> result.ok = TRUE)

C35_Witness ==
    /\ MainCallReturned
    /\ result.op = "csv"
    /\ result.total = 2
    /\ result.successful = 2
    /\ ExitCode(result) = 0

----------------------------------------------------------------------------
(* Vocabulary of the flag and approval properties *)

\* the step is a return of process_single_transfer to its caller
SingleReturns == op = "single" /\ op' = "none"

\* transfer_repository, called directly or for a CSV row, has got past its
\* validation block
PastValidationBlock ==
    /\ op \in {"direct", "csv"}
    /\ ArgsPresent
    /\ pc \in {"tr_post", "tr_sleep"} \/ (pc = "tr_return" /\ ret = TRUE)

(* C36: _validation_done is False after every return of                    *)
(* process_single_transfer (validation abort, declined prompt, transfer    *)
(* success or failure), so a transfer_repository or process_csv_file call  *)
(* on the same instance never runs with the flag set and passes all five   *)
(* validation GETs of a request before going on.                           *)
C36_FlagNeverLeaks ==
    /\ [][SingleReturns => (pc' = "idle" /\ validation_done' = FALSE)]_vars
    /\ [](op \in {"direct", "csv"} => ~validation_done)
    /\ [](PastValidationBlock =>
            /\ Len(TrGets) = 5
            /\ \A k \in 1..5 : ~FailedCheck(TrGets[k]))

C36_Witness ==
    /\ pc = "idle"
    /\ result = BoolResult("single", TRUE)
    /\ Posts # <<>>
    /\ ncalls = 1
    /\ validation_done = FALSE

\* the prompt at which the request being processed has to be approved
ApprovalPoint ==
    IF op = "single" THEN "pst_prompt"
    ELSE IF confirm_each THEN "csv_confirm" ELSE "csv_batch_prompt"

\* the step hands the request to transfer_repository (or to the sleep that
\* precedes it in a batch)
StartsTransfer == pc # pc' /\ pc' \in {"tr_entry", "csv_sleep"}

(* C37: process_single_transfer and process_csv_file issue a POST for a    *)
(* request only if auto_approve is set or the user answered y or yes at    *)
(* the prompt that covers the request: the prompt of                       *)
(* process_single_transfer, the per-row prompt when confirm_each is set,   *)
(* the batch prompt otherwise. When the batch prompt is declined,          *)
(* process_csv_file returns (0, 0) and no validate_org_access,             *)
(* validate_repo_access or transfer_repository call has been made.         *)
C37_NoTransferWithoutApproval ==
    /\ []((op \in {"single", "csv"} /\ Posts # <<>>) => (auto_approve \/ approved))
    /\ [][(approved' /\ ~approved) =>
            (pc = ApprovalPoint /\ ~auto_approve)]_vars
    /\ [][(op \in {"single", "csv"} /\ ~auto_approve /\ StartsTransfer) =>
            /\ approved'
            /\ \/ pc = ApprovalPoint
               \/ op = "csv" /\ pc = "csv_sleep"
               \/ op = "csv" /\ ~confirm_each /\ pc = "csv_row"]_vars
    /\ [][(pc = "csv_batch_prompt" /\ ~approved') =>
            /\ pc' = "idle"
            /\ result' = PairResult(0, 0)
            /\ trace' = trace
            /\ ValidationGets = <<>>
            /\ Posts = <<>>
            /\ n_tr_calls' = 0]_vars

C37_Witness ==
    /\ op = "csv"
    /\ ~auto_approve
    /\ ~confirm_each
    /\ approved
    /\ i = 2
    /\ Posts # <<>>

(* C38: with confirm_each set and auto_approve not set, declining row i    *)
(* causes no HTTP request, no sleep and no transfer_repository call for    *)
(* it; the row is counted in total and not in successful, and the loop     *)
(* goes on with row i + 1, or returns the counters after the last row.     *)
C38_DeclinedRowIsSkipped ==
    /\ [](pc = "csv_confirm" =>
            (confirm_each /\ ~auto_approve /\ trace = <<>> /\ total = i))
    /\ [][(pc = "csv_confirm" /\ ~approved') =>
            /\ trace' = <<>>
            /\ n_tr_calls' = n_tr_calls
            /\ total' = total
            /\ successful' = successful
            /\ IF i < Len(repos)
               THEN pc' = "csv_row" /\ i' = i + 1
               ELSE pc' = "idle" /\ result' = PairResult(successful, total)]_vars

C38_Witness ==
    /\ op = "csv"
    /\ pc = "csv_row"
    /\ i = 2
    /\ total = 1
    /\ successful = 0
    /\ n_tr_calls = 0
    /\ ~approved
    /\ confirm_each
    /\ ~auto_approve

====
